---- MODULE Spec2Model ----
(***************************************************************************)
(* Model of OMRProcessor (src/omr_processor.py): the recognition pipeline  *)
(* imread -> preprocess_image -> detect_bubbles -> extract_answers ->      *)
(* evaluate_answers of process_omr_sheet, and the direct calls of          *)
(* extract_answers and evaluate_answers made by src/test_answer_keys.py.   *)
(*                                                                         *)
(* Python values: None is the string "<None>" (the string literal "None"   *)
(* of the verdicts' "marked" field is a different value); a dict is a      *)
(* record [keys, at] that keeps the insertion order of its keys; a 2-D     *)
(* uint8 array holding only 0 and 255 is a record [height, width, white]   *)
(* where white is the set of <<y, x>> positions holding 255.  A dict object *)
(* is a position of heap, the sequence of the dicts that exist: position 1 *)
(* is the dict handed to the constructor, which self.answer_key refers to. *)
(***************************************************************************)
EXTENDS Integers, Sequences, FiniteSets, TLC

VARIABLES answer_key, pc, image, thresh, bubbles, extracted_answers,
          score, detailed_results, ret, error, ran, calls, heap

vars == <<answer_key, pc, image, thresh, bubbles, extracted_answers,
          score, detailed_results, ret, error, ran, calls, heap>>

----------------------------------------------------------------------------
(* Python values *)

None == "<None>"

Labels == <<"a", "b", "c", "d">>

LabelSet == {Labels[i] : i \in 1..Len(Labels)}

EmptyDict == [keys |-> <<>>, at |-> <<>>]

DictHas(d, k) == k \in DOMAIN d.at

\* d[k] = v : a new key goes last, an existing key keeps its position
DictSet(d, k, v) ==
  IF DictHas(d, k)
    THEN [keys |-> d.keys, at |-> [x \in DOMAIN d.at |-> IF x = k THEN v ELSE d.at[x]]]
    ELSE [keys |-> Append(d.keys, k), at |-> (k :> v) @@ d.at]

\* d.get(k) : None when k is absent
DictGet(d, k) == IF DictHas(d, k) THEN d.at[k] ELSE None

\* d.items() : the (key, value) pairs in insertion order
DictItems(d) == [i \in 1..Len(d.keys) |-> <<d.keys[i], d.at[d.keys[i]]>>]

DictLen(d) == Len(d.keys)

\* each statement of a loop body finishes before the next iteration starts: a
\* value is built in full here, not left pending for the end of the loop
Built(v) == v = v

Min(a, b) == IF a <= b THEN a ELSE b

Max(a, b) == IF a >= b THEN a ELSE b

----------------------------------------------------------------------------
(* numpy arrays of a binary mask *)

EmptyArray == [height |-> 0, width |-> 0, white |-> {}]

\* arr[y0:y1, x0:x1] for 0 <= y0, x0 : basic slicing clamps the stops to the
\* shape and gives an empty axis when the start is past it
ArraySlice(arr, y0, y1, x0, x1) ==
  LET ya == Min(y0, arr.height)
      yb == Max(ya, Min(y1, arr.height))
      xa == Min(x0, arr.width)
      xb == Max(xa, Min(x1, arr.width))
  IN [height |-> yb - ya,
      width  |-> xb - xa,
      white  |-> {<<p[1] - ya, p[2] - xa>> :
                    p \in {w \in arr.white : /\ ya <= w[1] /\ w[1] < yb
                                             /\ xa <= w[2] /\ w[2] < xb}}]

\* np.sum(arr) : every white sample holds 255, the sum is taken in a wide integer
np_sum(arr) == 255 * Cardinality(arr.white)

----------------------------------------------------------------------------
(* detect_bubbles *)

cols == 5

rows == 20

col_width(width) == width \div cols

row_height(height) == height \div rows

q_num_rowmajor(col, row) == row * cols + col + 1

q_num_zero(col, row) == col * rows + row

q_num(col, row) == col * rows + row + 1

option_height(height) == row_height(height) \div 4

bubble_region(arr, col, row) ==
  LET x_start == col * col_width(arr.width)
      y_start == row * row_height(arr.height)
      x_end   == x_start + col_width(arr.width)
      y_end   == y_start + row_height(arr.height)
  IN ArraySlice(arr, y_start, y_end, x_start, x_end)

option_region_overlap(region, opt_height, opt_idx) ==
  LET y_opt_start == opt_idx * opt_height
      y_opt_end   == y_opt_start + opt_height + 1
  IN ArraySlice(region, y_opt_start, y_opt_end, 0, region.width)

option_region(region, opt_height, opt_idx) ==
  LET y_opt_start == opt_idx * opt_height
      y_opt_end   == y_opt_start + opt_height
  IN ArraySlice(region, y_opt_start, y_opt_end, 0, region.width)

\* np.sum(option_region) / 255 : a float; on a binary mask it is whole
intensity(region) == np_sum(region) \div 255

\* the list enumerate() walks: position opt_idx + 1 holds the label of band opt_idx
OptionOrder == Labels

\* for opt_idx, option in enumerate(['a', 'b', 'c', 'd']), from position i on
RECURSIVE OptionLoop(_, _, _, _)
OptionLoop(region, opt_height, i, options_intensity) ==
  IF i > Len(OptionOrder) THEN options_intensity
  ELSE LET nxt == DictSet(options_intensity, OptionOrder[i],
                        intensity(option_region(region, opt_height, i - 1)))
       IN IF Built(nxt) THEN OptionLoop(region, opt_height, i + 1, nxt) ELSE nxt

options_of(arr, col, row) ==
  OptionLoop(bubble_region(arr, col, row), option_height(arr.height), 1, EmptyDict)

\* for row in range(rows), within one column, from row on
RECURSIVE RowLoop(_, _, _, _)
RowLoop(arr, col, row, acc) ==
  IF row >= rows THEN acc
  ELSE LET nxt == DictSet(acc, q_num(col, row), options_of(arr, col, row))
       IN IF Built(nxt) THEN RowLoop(arr, col, row + 1, nxt) ELSE nxt

\* for col in range(cols), from col on
RECURSIVE CellLoop(_, _, _)
CellLoop(arr, col, acc) ==
  IF col >= cols THEN acc
  ELSE LET nxt == RowLoop(arr, col, 0, acc)
       IN IF Built(nxt) THEN CellLoop(arr, col + 1, nxt) ELSE nxt

detect_bubbles(arr) == CellLoop(arr, 0, EmptyDict)

----------------------------------------------------------------------------
(* extract_answers *)

threshold == 50

\* max() keeps the first item it saw unless a later one compares greater
takes_over_or_equal(candidate, best) == candidate >= best

takes_over(candidate, best) == candidate > best

\* max(items, key=lambda x: x[1]) from position i on, the best so far at position b
RECURSIVE MaxLoop(_, _, _)
MaxLoop(items, i, b) ==
  IF i > Len(items) THEN items[b]
  ELSE MaxLoop(items, i + 1, IF takes_over(items[i][2], items[b][2]) THEN i ELSE b)

is_marked_ge(value) == value >= threshold

is_marked(value) == value > threshold

extract_one(options) ==
  IF DictLen(options) > 0
    THEN LET marked_option == MaxLoop(DictItems(options), 2, 1)[1]
         IN IF is_marked(options.at[marked_option]) THEN marked_option ELSE None
    ELSE None

\* for q_num, options in bubbles.items(): the iterations lo..hi, in order (the
\* first half of them, then the rest, each starting from what the one before left)
RECURSIVE ExtractLoop(_, _, _, _)
ExtractLoop(items, lo, hi, answers) ==
  IF lo > hi THEN answers
  ELSE IF lo = hi
    THEN DictSet(answers, items[lo][1], extract_one(items[lo][2]))
    ELSE LET mid   == (lo + hi) \div 2
             first == ExtractLoop(items, lo, mid, answers)
         IN IF Built(first) THEN ExtractLoop(items, mid + 1, hi, first) ELSE first

extract_answers(bs) == ExtractLoop(DictItems(bs), 1, DictLen(bs), EmptyDict)

----------------------------------------------------------------------------
(* evaluate_answers *)

Verdict(status, marked, correct, is_correct) ==
  [status |-> status, marked |-> marked, correct |-> correct, is_correct |-> is_correct]

classify_no_none(student_answer, correct_answer) ==
  IF student_answer = correct_answer
    THEN Verdict("Correct", student_answer, correct_answer, TRUE)
    ELSE IF student_answer = None
      THEN Verdict("Not Attempted", "None", correct_answer, FALSE)
      ELSE Verdict("Incorrect", student_answer, correct_answer, FALSE)

classify_swapped(student_answer, correct_answer) ==
  IF student_answer = None
    THEN Verdict("Not Attempted", "None", correct_answer, FALSE)
    ELSE IF student_answer # correct_answer
      THEN Verdict("Correct", student_answer, correct_answer, TRUE)
      ELSE Verdict("Incorrect", student_answer, correct_answer, FALSE)

\* the if / elif / else of one iteration
classify(student_answer, correct_answer) ==
  IF student_answer = None
    THEN Verdict("Not Attempted", "None", correct_answer, FALSE)
    ELSE IF student_answer = correct_answer
      THEN Verdict("Correct", student_answer, correct_answer, TRUE)
      ELSE Verdict("Incorrect", student_answer, correct_answer, FALSE)

score_step_always(sc, verdict) == sc + 1

\* score += 1 happens in the Correct branch alone
score_step(sc, verdict) == IF verdict.status = "Correct" THEN sc + 1 ELSE sc

evaluate_step_skip_none(key, item, acc) ==
  LET q              == item[1]
      student_answer == item[2]
      correct_answer == DictGet(key, q)
      verdict        == classify(student_answer, correct_answer)
  IN IF student_answer = None THEN acc
     ELSE [score   |-> score_step(acc.score, verdict),
           results |-> DictSet(acc.results, q, verdict)]

\* one iteration of the loop: look the key up, classify, count
evaluate_step(key, item, acc) ==
  LET q              == item[1]
      student_answer == item[2]
      correct_answer == DictGet(key, q)
      verdict        == classify(student_answer, correct_answer)
  IN [score   |-> score_step(acc.score, verdict),
      results |-> DictSet(acc.results, q, verdict)]

\* for q_num, student_answer in extracted_answers.items(): the iterations
\* lo..hi, in order
RECURSIVE EvaluateLoop(_, _, _, _, _)
EvaluateLoop(key, items, lo, hi, acc) ==
  IF lo > hi THEN acc
  ELSE IF lo = hi
    THEN evaluate_step(key, items[lo], acc)
    ELSE LET mid   == (lo + hi) \div 2
             first == EvaluateLoop(key, items, lo, mid, acc)
         IN IF Built(first) THEN EvaluateLoop(key, items, mid + 1, hi, first) ELSE first

\* returns (score, results)
evaluate_answers(key, answers) ==
  EvaluateLoop(key, DictItems(answers), 1, DictLen(answers),
               [score |-> 0, results |-> EmptyDict])

(* evaluate_answers on dict objects: h is the heap, a reference is a position *)
(* of it                                                                      *)

\* self.answer_key = answer_key : the processor keeps the caller's dict itself
self_answer_key == 1

results_kept(h, arg) ==
  IF Len(h) > self_answer_key + 1
    THEN [heap |-> h, ref |-> self_answer_key + 2]
    ELSE [heap |-> Append(h, EmptyDict), ref |-> Len(h) + 1]

\* results = {} : a dict that did not exist before
results_object(h, arg) == [heap |-> Append(h, EmptyDict), ref |-> Len(h) + 1]

\* iteration i of the loop: reads the argument and the key, assigns results[q_num]
HeapStep(h, f, i) ==
  LET item == DictItems(h[f.arg])[i]
      acc  == evaluate_step(h[f.key], item, [score |-> f.score, results |-> h[f.results]])
  IN [heap |-> [h EXCEPT ![f.results] = acc.results], score |-> acc.score]

\* the loop over the argument's items from position i on, f the local variables
RECURSIVE HeapLoop(_, _, _)
HeapLoop(h, f, i) ==
  IF i > DictLen(h[f.arg]) THEN [heap |-> h, score |-> f.score]
  ELSE LET s == HeapStep(h, f, i)
       IN IF Built(s) THEN HeapLoop(s.heap, [f EXCEPT !.score = s.score], i + 1) ELSE s

\* self.evaluate_answers(arg): the heap it leaves, and the (score, results) returned
evaluate_answers_on(h, key, arg) ==
  LET r   == results_object(h, arg)
      out == HeapLoop(r.heap, [key |-> key, arg |-> arg, results |-> r.ref, score |-> 0], 1)
  IN [heap |-> out.heap, score |-> out.score, results |-> r.ref]

----------------------------------------------------------------------------
(* Inputs *)

MaxMarkRows == 3

MaxKeyShift == 0

MaxN == 2

MaxQ == 2

MaxSeqN == 2

MaxBetween == 1

MaxBandHeight == 1

MaxColWidth == 1

NoneImage == [isNone |-> TRUE, height |-> 0, width |-> 0]

Image(h, w) == [isNone |-> FALSE, height |-> h, width |-> w]

\* shapes of decodable images: smaller than the grid, an exact multiple of it, and
\* with a remainder
ImageHeights == {1, 19, 80, 83}

ImageWidths == {4, 260}

\* shapes only a direct caller of detect_bubbles can pass
DirectShapes == {<<0, 0>>, <<0, 260>>, <<80, 0>>, <<3, 7>>}

MarkTops == {0, 1, 4, 79}

MarkLefts == {0, 208}

MarkWidths == {threshold, threshold + 1, threshold + 10}

\* a mask of the shape with one white rectangle, clipped to the shape
Mask(h, w, top, left, mh, mw) ==
  [height |-> h, width |-> w,
   white  |-> (top .. (Min(top + mh, h) - 1)) \X (left .. (Min(left + mw, w) - 1))]

Masks(h, w) ==
  {Mask(h, w, top, left, mh, mw) :
     top \in MarkTops, left \in MarkLefts, mh \in 0..MaxMarkRows, mw \in MarkWidths}

\* a dict with the keys lo..hi in increasing order
RECURSIVE RangeDict(_, _, _, _)
RangeDict(lo, hi, shift, acc) ==
  IF lo > hi THEN acc
  ELSE LET nxt == DictSet(acc, lo, Labels[((lo + shift) % Len(Labels)) + 1])
       IN IF Built(nxt) THEN RangeDict(lo + 1, hi, shift, nxt) ELSE nxt

\* answer keys handed to the constructor for a sheet: complete, one entry short
\* at either end, and one entry too many
SheetKeys ==
  {RangeDict(d[1], d[2], shift, EmptyDict) :
     d \in {<<1, 100>>, <<2, 100>>, <<1, 99>>, <<1, 101>>}, shift \in 0..MaxKeyShift}

Injective(s) == \A i, j \in DOMAIN s : s[i] = s[j] => i = j

Range(s) == {s[i] : i \in DOMAIN s}

\* the insertion orders of the dicts over question numbers among 1..n
KeyOrders(n) == {s \in UNION {[1..k -> 1..n] : k \in 0..n} : Injective(s)}

Increasing(s) == \A i, j \in DOMAIN s : i < j => s[i] < s[j]

AnswerValues == LabelSet \cup {None, "x"}

\* answer keys of the direct calls: labels for any of the questions 1..n, inserted
\* in increasing order
SmallKeys(n) ==
  UNION {{[keys |-> s, at |-> f] : f \in [Range(s) -> LabelSet]} :
           s \in {o \in KeyOrders(n) : Increasing(o)}}

Scores == {0, threshold, threshold + 1}

\* an intensity map as detect_bubbles builds it
OptionsDict(f) == [keys |-> OptionOrder, at |-> f]

SmallOptions == {EmptyDict} \cup {OptionsDict(f) : f \in [LabelSet -> Scores]}

\* mask shapes for measuring the regions: shorter than the grid, rows too low
\* for a band, rows of exactly four bands, and rows and columns with a remainder
GridHeights ==
  {rows - 1, rows * 3, rows * 4 * MaxBandHeight,
   rows * (4 * MaxBandHeight + 1) + rows - 1}

GridWidths == {cols - 1, cols * MaxColWidth, cols * MaxColWidth + cols - 1}

\* the masks of a shape with one white sample, and the all-white mask
ProbeMasks(h, w) ==
  {[height |-> h, width |-> w, white |-> {p}] : p \in (0..(h - 1)) \X (0..(w - 1))}
    \cup {[height |-> h, width |-> w, white |-> (0..(h - 1)) \X (0..(w - 1))]}

----------------------------------------------------------------------------
(* State machine *)

NoReturn == [returned |-> FALSE]

Blank ==
  /\ image = NoneImage
  /\ thresh = EmptyArray
  /\ bubbles = EmptyDict
  /\ extracted_answers = EmptyDict
  /\ score = 0
  /\ detailed_results = EmptyDict
  /\ ret = NoReturn
  /\ error = None
  /\ ran = <<>>
  /\ calls = <<>>
  /\ heap = <<answer_key>>

\* OMRProcessor(answer_key)
Init ==
  /\ answer_key \in SheetKeys
  /\ pc = "start"
  /\ Blank

load_failed_never(img) == FALSE

\* if image is None
load_failed(img) == img.isNone

\* image = cv2.imread(image_path); if image is None: raise ValueError
Imread ==
  /\ pc = "start"
  /\ \E img \in {NoneImage} \cup {Image(h, w) : h \in ImageHeights, w \in ImageWidths} :
       /\ image' = img
       /\ ran' = Append(ran, "imread")
       /\ IF load_failed(img)
            THEN pc' = "raised" /\ error' = "ValueError"
            ELSE pc' = "loaded" /\ error' = error
  /\ UNCHANGED <<heap, calls, answer_key, thresh, bubbles, extracted_answers, score,
                 detailed_results, ret>>

\* preprocess_image: cv2 turns the image into a binary mask of the same shape
\* (any mask of that shape); cv2.cvtColor raises on None
PreprocessImage ==
  /\ pc = "loaded"
  /\ ran' = Append(ran, "preprocess_image")
  /\ IF image.isNone
       THEN pc' = "raised" /\ error' = "cv2.error" /\ thresh' = thresh
       ELSE /\ thresh' \in Masks(image.height, image.width)
            /\ pc' = "binarized"
            /\ error' = error
  /\ UNCHANGED <<heap, calls, answer_key, image, bubbles, extracted_answers, score,
                 detailed_results, ret>>

DetectBubbles ==
  /\ pc = "binarized"
  /\ bubbles' = detect_bubbles(thresh)
  /\ ran' = Append(ran, "detect_bubbles")
  /\ pc' = "detected"
  /\ UNCHANGED <<heap, calls, answer_key, image, thresh, extracted_answers, score,
                 detailed_results, ret, error>>

\* reached from process_omr_sheet, or called on what a direct detect_bubbles gave
ExtractAnswers ==
  /\ pc \in {"detected", "detected_direct"}
  /\ extracted_answers' = extract_answers(bubbles)
  /\ ran' = Append(ran, "extract_answers")
  /\ pc' = IF pc = "detected" THEN "extracted" ELSE "extracted_direct"
  /\ UNCHANGED <<heap, calls, answer_key, image, thresh, bubbles, score, detailed_results,
                 ret, error>>

EvaluateAnswers ==
  /\ pc = "extracted"
  /\ LET r == evaluate_answers(answer_key, extracted_answers)
     IN score' = r.score /\ detailed_results' = r.results
  /\ ran' = Append(ran, "evaluate_answers")
  /\ pc' = "evaluated"
  /\ UNCHANGED <<heap, calls, answer_key, image, thresh, bubbles, extracted_answers, ret, error>>

\* the dict process_omr_sheet returns
Return ==
  /\ pc = "evaluated"
  /\ ret' = [returned |-> TRUE,
             total_score |-> score,
             detailed_results |-> detailed_results,
             processed_image |-> thresh,
             extracted_answers |-> extracted_answers]
  /\ pc' = "returned"
  /\ UNCHANGED <<heap, calls, answer_key, image, thresh, bubbles, extracted_answers, score,
                 detailed_results, error, ran>>

\* detect_bubbles called on its own, with a mask of any shape
DetectBubblesCall ==
  /\ pc = "start"
  /\ \E s \in DirectShapes :
       \E m \in Masks(s[1], s[2]) :
         /\ thresh' = m
         /\ bubbles' = detect_bubbles(m)
  /\ ran' = Append(ran, "detect_bubbles")
  /\ pc' = "detected_direct"
  /\ UNCHANGED <<heap, calls, answer_key, image, extracted_answers, score, detailed_results,
                 ret, error>>

Next ==
  \/ Imread
  \/ PreprocessImage
  \/ DetectBubbles
  \/ ExtractAnswers
  \/ EvaluateAnswers
  \/ Return
  \/ DetectBubblesCall

Spec == Init /\ [][Next]_vars

(* evaluate_answers called on its own, as src/test_answer_keys.py does *)

InitEval ==
  /\ answer_key \in SmallKeys(MaxN)
  /\ pc = "idle"
  /\ Blank

EvaluateAnswersCall ==
  /\ pc = "idle"
  /\ \E order \in KeyOrders(MaxN) :
       \E f \in [Range(order) -> AnswerValues] :
         LET answers == [keys |-> order, at |-> f]
             r       == evaluate_answers(answer_key, answers)
         IN /\ extracted_answers' = answers
            /\ score' = r.score
            /\ detailed_results' = r.results
  /\ ran' = <<"evaluate_answers">>
  /\ pc' = "evaluated"
  /\ UNCHANGED <<heap, calls, answer_key, image, thresh, bubbles, ret, error>>

NextEval == EvaluateAnswersCall

SpecEval == InitEval /\ [][NextEval]_vars

(* several evaluate_answers calls on one processor: a first call, other calls  *)
(* with the answers the tests derive from the key, and the first call again    *)

\* wrong_answers of test_evaluate_answers_incorrect
WrongAnswers(key) ==
  [keys |-> key.keys,
   at   |-> [q \in DOMAIN key.at |-> IF key.at[q] = "a" THEN "x" ELSE "a"]]

\* every question not attempted, as the second half of partial_answers
BlankAnswers(key) == [keys |-> key.keys, at |-> [q \in DOMAIN key.at |-> None]]

\* perfect_answers, wrong_answers and unattempted answers for a key
OtherAnswers(key) == {key, WrongAnswers(key), BlankAnswers(key)}

InitSeq ==
  /\ answer_key \in SmallKeys(MaxSeqN)
  /\ pc = "idle"
  /\ Blank

\* the caller builds a dict of answers
new_answers(h, answers) == [heap |-> Append(h, answers), ref |-> Len(h) + 1]

\* one call self.evaluate_answers(arg) on the heap h, and what the caller sees
\* after it in the key, in the argument and in the results it was returned
CallEvaluate(h, arg) ==
  LET r == evaluate_answers_on(h, self_answer_key, arg)
  IN /\ heap' = r.heap
     /\ answer_key' = r.heap[self_answer_key]
     /\ extracted_answers' = r.heap[arg]
     /\ score' = r.score
     /\ detailed_results' = r.heap[r.results]
     /\ calls' = Append(calls, [arg      |-> arg,
                                answers  |-> h[arg],
                                key      |-> h[self_answer_key],
                                score    |-> r.score,
                                results  |-> r.results,
                                returned |-> r.heap[r.results]])
     /\ ran' = Append(ran, "evaluate_answers")
     /\ UNCHANGED <<image, thresh, bubbles, ret, error>>

SeqFirst ==
  /\ pc = "idle"
  /\ \E order \in {o \in KeyOrders(MaxSeqN) : Increasing(o)} :
       \E f \in [Range(order) -> AnswerValues] :
         LET a == new_answers(heap, [keys |-> order, at |-> f])
         IN CallEvaluate(a.heap, a.ref)
  /\ pc' = "called"

SeqOther ==
  /\ pc = "called"
  /\ Len(calls) <= MaxBetween
  /\ \E answers \in OtherAnswers(answer_key) :
       LET a == new_answers(heap, answers)
       IN CallEvaluate(a.heap, a.ref)
  /\ pc' = "called"

\* the dict of the first call is handed in again
SeqRerun ==
  /\ pc = "called"
  /\ CallEvaluate(heap, calls[1].arg)
  /\ pc' = "rerun"

NextSeq ==
  \/ SeqFirst
  \/ SeqOther
  \/ SeqRerun

SpecSeq == InitSeq /\ [][NextSeq]_vars

(* detect_bubbles called on masks that show which samples each option counts *)

\* the caller holds an all-black mask of one of the shapes
InitGrid ==
  /\ answer_key = EmptyDict
  /\ pc = "idle"
  /\ image = NoneImage
  /\ \E h \in GridHeights, w \in GridWidths :
       thresh = [height |-> h, width |-> w, white |-> {}]
  /\ bubbles = EmptyDict
  /\ extracted_answers = EmptyDict
  /\ score = 0
  /\ detailed_results = EmptyDict
  /\ ret = NoReturn
  /\ error = None
  /\ ran = <<>>
  /\ calls = <<>>
  /\ heap = <<answer_key>>

DetectBubblesProbe ==
  /\ pc = "idle"
  /\ \E m \in ProbeMasks(thresh.height, thresh.width) :
       /\ thresh' = m
       /\ bubbles' = detect_bubbles(m)
  /\ ran' = <<"detect_bubbles">>
  /\ pc' = "probed"
  /\ UNCHANGED <<heap, calls, answer_key, image, extracted_answers, score,
                 detailed_results, ret, error>>

NextGrid == DetectBubblesProbe

SpecGrid == InitGrid /\ [][NextGrid]_vars

(* extract_answers called on its own, with bubbles for the questions 1..n in   *)
(* increasing order, as detect_bubbles numbers them                           *)

InitExtract ==
  /\ answer_key = EmptyDict
  /\ pc = "idle"
  /\ Blank

ExtractAnswersCall ==
  /\ pc = "idle"
  /\ \E n \in 0..MaxQ :
       \E f \in [1..n -> SmallOptions] :
         LET bs == [keys |-> [i \in 1..n |-> i], at |-> f]
         IN /\ bubbles' = bs
            /\ extracted_answers' = extract_answers(bs)
  /\ ran' = <<"extract_answers">>
  /\ pc' = "extracted"
  /\ UNCHANGED <<heap, calls, answer_key, image, thresh, score, detailed_results, ret, error>>

NextExtract == ExtractAnswersCall

SpecExtract == InitExtract /\ [][NextExtract]_vars

----------------------------------------------------------------------------
(* Properties *)

Statuses(results) == {results.at[q].status : q \in DOMAIN results.at}

CountStatus(results, status) ==
  Cardinality({q \in DOMAIN results.at : results.at[q].status = status})

\* the key has entries exactly for 1..N, each a label
KeyCovers(key) ==
  /\ DOMAIN key.at = 1..DictLen(key)
  /\ \A q \in DOMAIN key.at : key.at[q] \in LabelSet

\* C1: evaluating the answer key itself, a key over 1..N with labels among
\* a, b, c, d, gives score N and the verdict Correct for every question.
C1_KeyAsAnswersAllCorrect ==
  (pc = "evaluated" /\ KeyCovers(answer_key) /\ extracted_answers.at = answer_key.at)
    => /\ score = DictLen(answer_key)
       /\ DOMAIN detailed_results.at = DOMAIN answer_key.at
       /\ \A q \in DOMAIN detailed_results.at :
            /\ detailed_results.at[q].status = "Correct"
            /\ detailed_results.at[q].is_correct

C1_Witness ==
  /\ pc = "evaluated"
  /\ KeyCovers(answer_key)
  /\ DictLen(answer_key) >= 2
  /\ extracted_answers.at = answer_key.at
  /\ answer_key.at[1] # answer_key.at[2]
  /\ score = DictLen(answer_key)

EveryAnswerDiffers ==
  \A q \in DOMAIN extracted_answers.at :
    extracted_answers.at[q] # DictGet(answer_key, q)

\* C2 as stated: whenever every answer differs from the key's label at its
\* question, the score is 0 and every verdict is Incorrect.
C2_Original ==
  (pc = "evaluated" /\ EveryAnswerDiffers)
    => /\ score = 0
       /\ \A q \in DOMAIN detailed_results.at :
            detailed_results.at[q].status = "Incorrect"

\* C2 amended: whenever every answer is an attempted one (not None) and differs
\* from the key's label at its question, the score is 0 and every question of
\* the answers has the verdict Incorrect.
C2_AttemptedAllDifferAllIncorrect ==
  (/\ pc = "evaluated"
   /\ EveryAnswerDiffers
   /\ \A q \in DOMAIN extracted_answers.at : extracted_answers.at[q] # None)
    => /\ score = 0
       /\ DOMAIN detailed_results.at = DOMAIN extracted_answers.at
       /\ \A q \in DOMAIN detailed_results.at :
            /\ detailed_results.at[q].status = "Incorrect"
            /\ ~detailed_results.at[q].is_correct

C2_Witness ==
  /\ pc = "evaluated"
  /\ DictLen(extracted_answers) >= 2
  /\ EveryAnswerDiffers
  /\ \A q \in DOMAIN extracted_answers.at : extracted_answers.at[q] # None
  /\ \E q \in DOMAIN extracted_answers.at : extracted_answers.at[q] \in LabelSet
  /\ \E q \in DOMAIN extracted_answers.at : DictHas(answer_key, q)
  /\ Statuses(detailed_results) = {"Incorrect"}

\* C3: a question answered None gets the verdict Not Attempted whatever the key
\* holds for it, also when the key has no entry for it, and adds nothing to the
\* score: the score counts only the attempted questions that match the key.
C3_NoneIsNotAttempted ==
  pc = "evaluated"
    => /\ \A q \in DOMAIN extracted_answers.at :
            extracted_answers.at[q] = None
              => /\ DictHas(detailed_results, q)
                 /\ detailed_results.at[q].status = "Not Attempted"
                 /\ detailed_results.at[q].marked = "None"
                 /\ ~detailed_results.at[q].is_correct
       /\ score = Cardinality({q \in DOMAIN extracted_answers.at :
                                 /\ extracted_answers.at[q] # None
                                 /\ extracted_answers.at[q] = DictGet(answer_key, q)})

C3_Witness ==
  /\ pc = "evaluated"
  /\ \E q \in DOMAIN extracted_answers.at :
       /\ extracted_answers.at[q] = None
       /\ ~DictHas(answer_key, q)
       /\ detailed_results.at[q].status = "Not Attempted"
  /\ \E q \in DOMAIN extracted_answers.at :
       /\ extracted_answers.at[q] # None
       /\ detailed_results.at[q].status = "Correct"
  /\ score = 1

MaxScore(options) ==
  CHOOSE m \in {options.at[l] : l \in DOMAIN options.at} :
    \A l \in DOMAIN options.at : options.at[l] <= m

\* C4: the marked test is strictly greater-than: a question whose largest ink
\* score is exactly 50 is answered None, and one whose largest ink score is 51
\* is answered with a label holding that 51.
C4_ThresholdIsStrict ==
  pc = "extracted"
    => \A q \in DOMAIN bubbles.at :
         DictLen(bubbles.at[q]) > 0
           => /\ MaxScore(bubbles.at[q]) = 50 => extracted_answers.at[q] = None
              /\ MaxScore(bubbles.at[q]) = 51
                   => /\ extracted_answers.at[q] \in DOMAIN bubbles.at[q].at
                      /\ bubbles.at[q].at[extracted_answers.at[q]] = 51

C4_Witness ==
  /\ pc = "extracted"
  /\ \E q \in DOMAIN bubbles.at :
       /\ DictLen(bubbles.at[q]) > 0
       /\ MaxScore(bubbles.at[q]) = 50
       /\ extracted_answers.at[q] = None
  /\ \E q \in DOMAIN bubbles.at :
       /\ DictLen(bubbles.at[q]) > 0
       /\ MaxScore(bubbles.at[q]) = 51
       /\ bubbles.at[q].at["c"] = 51
       /\ bubbles.at[q].at["a"] = 50
       /\ extracted_answers.at[q] = "c"

\* the labels holding the largest ink score of a question
Tied(options) == {l \in DOMAIN options.at : options.at[l] = MaxScore(options)}

\* the first label of a set in the canonical order a, b, c, d
FirstLabel(ls) == Labels[CHOOSE i \in 1..4 : Labels[i] \in ls /\ \A j \in 1..(i - 1) : Labels[j] \notin ls]

\* C5: when two or more labels of a question share the largest ink score and it
\* is above the threshold, the answer extracted from the intensity map that
\* detect_bubbles built is the first of the tied labels in the order a, b, c, d;
\* the answer is a function of the intensity map alone.
C5_TieGoesToFirstLabel ==
  pc \in {"extracted", "extracted_direct", "evaluated", "returned"}
    => \A q \in DOMAIN bubbles.at :
         (Cardinality(Tied(bubbles.at[q])) >= 2 /\ MaxScore(bubbles.at[q]) > 50)
           => extracted_answers.at[q] = FirstLabel(Tied(bubbles.at[q]))

C5_Witness ==
  /\ pc = "extracted"
  /\ \E q \in DOMAIN bubbles.at :
       /\ Tied(bubbles.at[q]) = {"b", "c", "d"}
       /\ MaxScore(bubbles.at[q]) > 50
       /\ extracted_answers.at[q] = "b"

\* the white samples of the mask inside the four option bands of the cell at
\* column c, row r, counted straight from the mask
InkOfCell(c, r) ==
  LET cw == thresh.width \div 5
      rh == thresh.height \div 20
      oh == rh \div 4
  IN Cardinality({p \in thresh.white :
                    /\ c * cw <= p[2] /\ p[2] < (c + 1) * cw
                    /\ r * rh <= p[1] /\ p[1] < r * rh + 4 * oh})

InkOfQuestion(q) ==
  bubbles.at[q].at["a"] + bubbles.at[q].at["b"] + bubbles.at[q].at["c"] + bubbles.at[q].at["d"]

\* C6: detect_bubbles numbers the questions 1..100, each once and in increasing
\* order, column by column: the cell at column c, row r (0-based) is question
\* c*20 + r + 1, so column 0 holds 1..20, column 1 holds 21..40, and so on.
C6_ColumnMajorNumbering ==
  pc \in {"detected", "detected_direct"}
    => /\ bubbles.keys = [i \in 1..100 |-> i]
       /\ DOMAIN bubbles.at = 1..100
       /\ \A c \in 0..4 : \A r \in 0..19 :
            InkOfQuestion(c * 20 + r + 1) = InkOfCell(c, r)

C6_Witness ==
  /\ pc = "detected"
  /\ bubbles.at[100].at["d"] > 0
  /\ bubbles.at[81].at["a"] = 0
  /\ bubbles.at[20].at["d"] = 0
  /\ bubbles.at[1].at["a"] = 0

\* the questions the grid expects and the key cannot resolve
Unresolvable == {q \in 1..(cols * rows) : ~DictHas(answer_key, q)}

\* C7 as stated: with a key that lacks an entry for a question of the grid, no
\* result is returned and no such question is scored Incorrect.
C7_MissingKeyFailsClosed ==
  Unresolvable # {}
    => /\ ~ret.returned
       /\ \A q \in Unresolvable :
            DictHas(detailed_results, q) => detailed_results.at[q].status # "Incorrect"

\* C8: when the image cannot be loaded, process_omr_sheet raises ValueError
\* right after the one imread, before any other stage has run, and returns
\* nothing.
C8_LoadFailureRaisesFirst ==
  (ran # <<>> /\ ran[1] = "imread" /\ image.isNone)
    => /\ pc = "raised"
       /\ error = "ValueError"
       /\ ran = <<"imread">>
       /\ ~ret.returned
       /\ thresh = EmptyArray
       /\ bubbles = EmptyDict
       /\ extracted_answers = EmptyDict
       /\ detailed_results = EmptyDict

C8_Witness ==
  /\ pc = "raised"
  /\ error = "ValueError"
  /\ image.isNone
  /\ ran = <<"imread">>

\* C9: detect_bubbles followed by extract_answers gives, for a mask of any
\* shape, an answer for every question 1..100, each one of a, b, c, d or None,
\* and nothing raises on the way.
C9_RecognitionIsTotal ==
  /\ pc \in {"detected", "detected_direct"}
       => /\ DOMAIN bubbles.at = 1..100
          /\ \A q \in 1..100 : DOMAIN bubbles.at[q].at = LabelSet
          /\ error = None
  /\ pc \in {"extracted", "extracted_direct"}
       => /\ DOMAIN extracted_answers.at = 1..100
          /\ DictLen(extracted_answers) = 100
          /\ \A q \in 1..100 : extracted_answers.at[q] \in LabelSet \cup {None}
          /\ error = None
  /\ (ran # <<>> /\ ran[1] = "detect_bubbles") => pc # "raised"
  /\ (pc = "raised") => Len(ran) <= 1

C9_Witness ==
  /\ pc = "extracted"
  /\ thresh.height < rows
  /\ thresh.width < cols
  /\ thresh.white # {}
  /\ \A q \in 1..100 : extracted_answers.at[q] = None

\* C10: the verdicts are for exactly the questions of the answers, in the
\* answers' insertion order; each has one of the three statuses; the score is
\* the number of Correct verdicts, so it lies in 0..N and
\* score + #Incorrect + #Not Attempted = N.
C10_VerdictsAndScore ==
  pc = "evaluated"
    => LET n == DictLen(extracted_answers)
       IN /\ detailed_results.keys = extracted_answers.keys
          /\ DOMAIN detailed_results.at = DOMAIN extracted_answers.at
          /\ Statuses(detailed_results) \subseteq {"Correct", "Incorrect", "Not Attempted"}
          /\ score = CountStatus(detailed_results, "Correct")
          /\ 0 <= score /\ score <= n
          /\ score + CountStatus(detailed_results, "Incorrect")
                   + CountStatus(detailed_results, "Not Attempted") = n

C10_Witness ==
  /\ pc = "evaluated"
  /\ extracted_answers.keys = <<2, 1>>
  /\ detailed_results.keys = <<2, 1>>
  /\ detailed_results.at[2].status = "Not Attempted"
  /\ detailed_results.at[1].status = "Correct"
  /\ score = 1

\* C11: after any sequence of evaluate_answers calls on one processor the
\* dict the processor holds as its answer key reads as it did before the first
\* call, the dict handed to each call reads as it was passed, and the results
\* returned by each call read as they were returned, whatever ran later; two
\* calls with the same answers return the same score and equal results, and the
\* score of every call is the count of its attempted answers that match the
\* key the processor was built with.
C11_CallsLeaveNoTrace ==
  calls # <<>>
    => /\ heap[self_answer_key] = calls[1].key
       /\ answer_key = calls[1].key
       /\ \A i \in DOMAIN calls :
            /\ calls[i].key = calls[1].key
            /\ heap[calls[i].arg] = calls[i].answers
            /\ heap[calls[i].results] = calls[i].returned
            /\ calls[i].returned.keys = calls[i].answers.keys
            /\ calls[i].score
                 = Cardinality({q \in DOMAIN calls[i].answers.at :
                                  /\ calls[i].answers.at[q] # None
                                  /\ calls[i].answers.at[q] = DictGet(calls[1].key, q)})
       /\ \A i, j \in DOMAIN calls :
            calls[i].answers = calls[j].answers
              => /\ calls[i].score = calls[j].score
                 /\ calls[i].returned = calls[j].returned
                 /\ heap[calls[i].results] = heap[calls[j].results]

C11_Witness ==
  /\ pc = "rerun"
  /\ Len(calls) = 3
  /\ calls[2].answers # calls[1].answers
  /\ calls[2].score # calls[1].score
  /\ calls[1].score >= 1
  /\ DictLen(calls[1].answers) >= 2
  /\ calls[3].arg = calls[1].arg
  /\ calls[3].results # calls[1].results
  /\ heap[calls[3].results] = heap[calls[1].results]
  /\ score = calls[1].score
  /\ detailed_results = calls[1].returned

\* the size every option region has by the claim
RegionWidth == thresh.width \div 5

RegionHeight == (thresh.height \div 20) \div 4

\* the sample at row y, column x lies in the band of label Labels[k + 1] of the
\* cell at column c, row r: inside the cell, k bands down from its top
InBand(y, x, c, r, k) ==
  LET cellw == thresh.width \div 5
      cellh == thresh.height \div 20
  IN /\ c * cellw <= x /\ x < (c + 1) * cellw
     /\ r * cellh + k * RegionHeight <= y
     /\ y < r * cellh + (k + 1) * RegionHeight
     /\ (k + 1) * RegionHeight <= cellh

TotalInk ==
  LET RECURSIVE Sum(_)
      Sum(q) == IF q = 0 THEN 0 ELSE InkOfQuestion(q) + Sum(q - 1)
  IN Sum(DictLen(bubbles))

\* C12: every option region is (W div 5) wide and ((H div 20) div 4) high, lies
\* inside the mask and inside its question's cell, the bands of a cell follow
\* each other downwards as a, b, c, d, and no two regions share a sample: a
\* sample counts for the one option whose band holds it and for no other, and
\* every ink score lies between 0 and the region's number of samples.
C12_RegionsPartitionCells ==
  pc = "probed"
    => /\ DOMAIN bubbles.at = 1..100
       /\ \A q \in 1..100 : \A l \in LabelSet :
            /\ 0 <= bubbles.at[q].at[l]
            /\ bubbles.at[q].at[l] <= RegionWidth * RegionHeight
       /\ Cardinality(thresh.white) = thresh.height * thresh.width
            => \A q \in 1..100 : \A l \in LabelSet :
                 bubbles.at[q].at[l] = RegionWidth * RegionHeight
       /\ Cardinality(thresh.white) = 1
            => /\ TotalInk <= 1
               /\ \A p \in thresh.white :
                    /\ p[1] < thresh.height /\ p[2] < thresh.width
                    /\ \A c \in 0..4 : \A r \in 0..19 : \A k \in 0..3 :
                         bubbles.at[c * 20 + r + 1].at[Labels[k + 1]]
                           = IF InBand(p[1], p[2], c, r, k) THEN 1 ELSE 0

C12_Witness ==
  /\ pc = "probed"
  /\ thresh.height % 20 # 0
  /\ thresh.width % 5 # 0
  /\ (thresh.height \div 20) % 4 # 0
  /\ thresh.white = {<<(thresh.height \div 20) * 19 + 3, (thresh.width \div 5) * 4>>}
  /\ bubbles.at[100].at["d"] = 1
  /\ TotalInk = 1

====
